---- MODULE Spec2Model ----
(***************************************************************************)
(* A model of the wallet utility layer (Utils in                           *)
(* packages/crypto-wallet-core/src/constants/tokens.ts) and of the         *)
(* update-wallet route (packages/bitcore-node/src/routes/api/wallet.ts).   *)
(*                                                                         *)
(* Every component is a small state machine of its own: Init draws the     *)
(* inputs of a call, the actions run the call and store its outcome.       *)
(* A JavaScript call ends in one of two ways, both modelled as a record:   *)
(*   [kind |-> "return", value |-> v]   or   [kind |-> "throw", value |-> e]*)
(***************************************************************************)
EXTENDS Integers, Sequences, FiniteSets, TLC

VARIABLES
    \* ---- address identity resolver ----
    source,      \* the address string the run started from
    address,     \* the address argument of the current call
    coin,        \* the coin argument of translateAddress
    addrCall,    \* which Utils function ran last ("none" before any)
    addrRet,     \* its outcome
    hops,        \* how many translateAddress calls were chained
    \* ---- message signature verifier ----
    message,     \* the message argument: a text or an array of texts
    signature,   \* the signature argument: a Buffer, a text or undefined
    publicKey,   \* the public key argument: a Buffer, a text or undefined
    noReverse,   \* the noReverse argument of hashMessage
    msgCall,     \* which Utils function ran last ("none" before any)
    msgRet,      \* its outcome
    \* ---- network names ----
    network1,    \* the first network argument
    network2,    \* the second network argument of compareNetworks
    chain,       \* the chain argument
    allowRegtest,\* Config.allowRegtest
    netCall,     \* which Utils function ran last ("none" before any)
    netRet,      \* its outcome
    \* ---- update-wallet route, POST /:pubKey ----
    req,         \* the request: params.pubKey, headers['x-reprocess'], body
    res,         \* the response: statusCode, what went on the wire
    pc,          \* where the request is: middleware, handler, awaiting, done
    keepAlive,   \* the keep-alive interval: undefined, active or cleared
    ticks,       \* keep-alive ticks fired so far
    verified,    \* how Auth.verifyRequestSignature ended, if it ran
    updateCalls, \* the arguments of every ChainStateProvider.updateWallet call
    fault        \* an exception that left the handler uncaught

addrVars == <<source, address, coin, addrCall, addrRet, hops>>
msgVars == <<message, signature, publicKey, noReverse, msgCall, msgRet>>
netVars == <<network1, network2, chain, allowRegtest, netCall, netRet>>
routeVars == <<req, res, pc, keepAlive, ticks, verified, updateCalls, fault>>
vars == <<addrVars, msgVars, netVars, routeVars>>
addrOthers == <<msgVars, netVars, routeVars>>
msgOthers == <<addrVars, netVars, routeVars>>
netOthers == <<addrVars, msgVars, routeVars>>
routeOthers == <<addrVars, msgVars, netVars>>

-----------------------------------------------------------------------------
(* Outcomes of a JavaScript call.                                           *)
undefined == "undefined"
Return(v) == [kind |-> "return", value |-> v]
Throw(e) == [kind |-> "throw", value |-> e]
NoCall == [kind |-> "none", value |-> undefined]

-----------------------------------------------------------------------------
(* Bounds.                                                                  *)
NumHashes == 2      \* distinct hash/script identities
MaxHops == 2        \* translateAddress calls chained in one run
MaxMsgLen == 2      \* characters of a message text
MaxSegs == 2        \* segments of a message given as a sequence
MaxSegLen == 1      \* characters of one segment
NumKeys == 2        \* distinct key pairs
MaxLines == 2       \* lines of a request body
MaxTicks == 2       \* keep-alive ticks during one request


-----------------------------------------------------------------------------
(* Address strings.  A string is modelled by what a decoder reads from it:  *)
(* the encoding, the version byte (base58), type bit (cashaddr) or witness  *)
(* version (bech32), the prefix, and the hash bytes.  "junk" strings (the   *)
(* empty string, "not-an-address") decode under no encoding.                *)
Hashes == 1..NumHashes

Base58(ver, hash) == [enc |-> "base58", ver |-> ver, hrp |-> "", hash |-> hash]
CashAddr(prefix, bit, hash) == [enc |-> "cashaddr", ver |-> bit, hrp |-> prefix, hash |-> hash]
Bech32(hrp, hash) == [enc |-> "bech32", ver |-> 0, hrp |-> hrp, hash |-> hash]
Junk(text) == [enc |-> "junk", ver |-> 0, hrp |-> text, hash |-> 0]

Coins == {"btc", "bch", "doge", "ltc"}

(* The version bytes each library's Networks table registers: base58       *)
(* version -> (type, network name).                                         *)
Networks(lib) ==
    CASE lib = "btc" ->
           { [ver |-> 0,   type |-> "pubkeyhash", network |-> "livenet"],
             [ver |-> 5,   type |-> "scripthash", network |-> "livenet"],
             [ver |-> 111, type |-> "pubkeyhash", network |-> "testnet"],
             [ver |-> 196, type |-> "scripthash", network |-> "testnet"] }
      [] lib = "bch" ->
           { [ver |-> 28,  type |-> "pubkeyhash", network |-> "livenet"],
             [ver |-> 40,  type |-> "scripthash", network |-> "livenet"],
             [ver |-> 111, type |-> "pubkeyhash", network |-> "testnet"],
             [ver |-> 196, type |-> "scripthash", network |-> "testnet"] }
      [] lib = "doge" ->
           { [ver |-> 30,  type |-> "pubkeyhash", network |-> "livenet"],
             [ver |-> 22,  type |-> "scripthash", network |-> "livenet"],
             [ver |-> 113, type |-> "pubkeyhash", network |-> "testnet"],
             [ver |-> 196, type |-> "scripthash", network |-> "testnet"] }
      [] lib = "ltc" ->
           { [ver |-> 48,  type |-> "pubkeyhash", network |-> "livenet"],
             [ver |-> 50,  type |-> "scripthash", network |-> "livenet"],
             [ver |-> 111, type |-> "pubkeyhash", network |-> "testnet"],
             [ver |-> 58,  type |-> "scripthash", network |-> "testnet"] }

(* The bech32 / cashaddr prefixes a library reads: prefix -> network name.  *)
Prefixes(lib) ==
    CASE lib = "btc" -> { [enc |-> "bech32", hrp |-> "bc", network |-> "livenet"],
                          [enc |-> "bech32", hrp |-> "tb", network |-> "testnet"] }
      [] lib = "ltc" -> { [enc |-> "bech32", hrp |-> "ltc", network |-> "livenet"],
                          [enc |-> "bech32", hrp |-> "tltc", network |-> "testnet"] }
      [] lib = "bch" -> { [enc |-> "cashaddr", hrp |-> "bitcoincash", network |-> "livenet"],
                          [enc |-> "cashaddr", hrp |-> "bchtest", network |-> "testnet"] }
      [] lib = "doge" -> {}

(* The identity kinds a library's Address can hold.                         *)
Types(lib) ==
    IF lib \in {"btc", "ltc"}
    THEN {"pubkeyhash", "scripthash", "witnesspubkeyhash"}
    ELSE {"pubkeyhash", "scripthash"}

CashType(bit) == IF bit = 0 THEN "pubkeyhash" ELSE "scripthash"
CashBit(type) == IF type = "pubkeyhash" THEN 0 ELSE 1

(* new Bitcore_[lib].Address(data): decodes the string under the library's  *)
(* grammar, or throws.                                                      *)
Address(lib, data) ==
    IF data.enc = "base58" /\ \E n \in Networks(lib) : n.ver = data.ver
    THEN LET n == CHOOSE n \in Networks(lib) : n.ver = data.ver
         IN  Return([hash |-> data.hash, type |-> n.type, network |-> n.network])
    ELSE IF data.enc \in {"bech32", "cashaddr"}
            /\ \E p \in Prefixes(lib) : p.enc = data.enc /\ p.hrp = data.hrp
    THEN LET p == CHOOSE p \in Prefixes(lib) : p.enc = data.enc /\ p.hrp = data.hrp
         IN  Return([hash |-> data.hash,
                     type |-> IF data.enc = "bech32" THEN "witnesspubkeyhash"
                              ELSE CashType(data.ver),
                     network |-> p.network])
    ELSE Throw("TypeError")

(* address.toObject(): { hash, type, network }.                             *)
toObject(addr) == [hash |-> addr.hash, type |-> addr.type, network |-> addr.network]

(* Bitcore_[lib].Address.fromObject(obj): new Address(hash, network, type); *)
(* throws when the library has no such type.                                *)
fromObject(lib, obj) ==
    IF obj.type \in Types(lib)
    THEN Return([hash |-> obj.hash, type |-> obj.type, network |-> obj.network])
    ELSE Throw("TypeError")

(* address.toLegacyAddress() of bitcore-lib-cash: base58check with the      *)
(* library's version byte.                                                  *)
toLegacyAddress(lib, addr) ==
    LET n == CHOOSE n \in Networks(lib) : n.type = addr.type /\ n.network = addr.network
    IN  Base58(n.ver, addr.hash)

(* address.toString(): the library's default format.                        *)
toString(lib, addr) ==
    IF lib = "bch"
    THEN LET p == CHOOSE p \in Prefixes(lib) : p.network = addr.network
         IN  CashAddr(p.hrp, CashBit(addr.type), addr.hash)
    ELSE IF addr.type = "witnesspubkeyhash"
    THEN LET p == CHOOSE p \in Prefixes(lib) : p.network = addr.network
         IN  Bech32(p.hrp, addr.hash)
    ELSE toLegacyAddress(lib, addr)

-----------------------------------------------------------------------------
(* A getAddressCoin that tries the libraries in another order.              *)
getAddressCoin_ltcFirst(addr) ==
    IF Address("ltc", addr).kind = "return" THEN Return("ltc")
    ELSE IF Address("doge", addr).kind = "return" THEN Return("doge")
    ELSE IF Address("bch", addr).kind = "return" THEN Return("bch")
    ELSE IF Address("btc", addr).kind = "return" THEN Return("btc")
    ELSE Return(undefined)

(* Utils.getAddressCoin: nested try/catch over btc, bch, doge, ltc.         *)
getAddressCoin(addr) ==
    IF Address("btc", addr).kind = "return" THEN Return("btc")
    ELSE IF Address("bch", addr).kind = "return" THEN Return("bch")
    ELSE IF Address("doge", addr).kind = "return" THEN Return("doge")
    ELSE IF Address("ltc", addr).kind = "return" THEN Return("ltc")
    ELSE Return(undefined)

(* Bitcore_[coin]: the library object of a coin, undefined for any other   *)
(* key; reading .Address of undefined throws a TypeError.                   *)
Bitcore_(key) == IF key \in Coins THEN key ELSE undefined

(* A translateAddress that re-encodes with the source coin's library       *)
(* instead of the target's.                                                 *)
translateAddress_origLib(addr, c) ==
    LET origCoin == getAddressCoin(addr)
    IN  IF Bitcore_(origCoin.value) = undefined THEN Throw("TypeError")
        ELSE LET origObj == toObject(Address(Bitcore_(origCoin.value), addr).value)
                 result == fromObject(Bitcore_(origCoin.value), origObj)
             IN  IF result.kind = "throw" THEN result
                 ELSE IF c = "bch"
                      THEN Return(toLegacyAddress(Bitcore_(origCoin.value), result.value))
                      ELSE Return(toString(Bitcore_(origCoin.value), result.value))

(* A translateAddress that builds the target from a stale object: the hash *)
(* of an earlier call instead of this address's.                            *)
translateAddress_staleObj(addr, c) ==
    LET origCoin == getAddressCoin(addr)
    IN  IF Bitcore_(origCoin.value) = undefined THEN Throw("TypeError")
        ELSE LET origObj == toObject(Address(Bitcore_(origCoin.value), addr).value)
                 result == fromObject(Bitcore_(c), [origObj EXCEPT !.hash = 1])
             IN  IF result.kind = "throw" THEN result
                 ELSE IF c = "bch"
                      THEN Return(toLegacyAddress(Bitcore_(c), result.value))
                      ELSE Return(toString(Bitcore_(c), result.value))

(* Utils.translateAddress.                                                  *)
translateAddress(addr, c) ==
    LET origCoin == getAddressCoin(addr)
    IN  IF origCoin.kind = "throw" THEN origCoin
        ELSE IF Bitcore_(origCoin.value) = undefined THEN Throw("TypeError")
        ELSE LET origAddress == Address(Bitcore_(origCoin.value), addr)
             IN  IF origAddress.kind = "throw" THEN origAddress
                 ELSE LET origObj == toObject(origAddress.value)
                          result == fromObject(Bitcore_(c), origObj)
                      IN  IF result.kind = "throw" THEN result
                          ELSE IF c = "bch"
                               THEN Return(toLegacyAddress(Bitcore_(c), result.value))
                               ELSE Return(toString(Bitcore_(c), result.value))

-----------------------------------------------------------------------------
(* The address strings a run may start from: every encoding of every hash   *)
(* under every library, a base58 string of a version no library knows, and *)
(* two strings that are no address at all.                                  *)
AddressInputs ==
    { Base58(n.ver, h) : n \in UNION { Networks(l) : l \in Coins }, h \in Hashes }
    \cup { Base58(99, h) : h \in Hashes }
    \cup { Bech32(p.hrp, h) : p \in Prefixes("btc") \cup Prefixes("ltc"), h \in Hashes }
    \cup { CashAddr(p.hrp, b, h) : p \in Prefixes("bch"), b \in {0, 1}, h \in Hashes }
    \cup { Junk(""), Junk("not-an-address") }

AddrIdle ==
    /\ source = Junk("")
    /\ address = Junk("")
    /\ coin = "btc"
    /\ addrCall = "none"
    /\ addrRet = NoCall
    /\ hops = 0

AddrStart ==
    /\ source \in AddressInputs
    /\ address = source
    /\ coin \in Coins
    /\ addrCall = "none"
    /\ addrRet = NoCall
    /\ hops = 0

(* A caller classifies the current address.                                 *)
GetAddressCoinCall ==
    /\ addrCall = "none"
    /\ addrCall' = "getAddressCoin"
    /\ addrRet' = getAddressCoin(address)
    /\ UNCHANGED <<source, address, coin, hops>>
    /\ UNCHANGED addrOthers

(* A caller translates the current address to coin.                         *)
TranslateAddressCall ==
    /\ addrCall = "none"
    /\ hops < MaxHops
    /\ addrCall' = "translateAddress"
    /\ addrRet' = translateAddress(address, coin)
    /\ hops' = hops + 1
    /\ UNCHANGED <<source, address, coin>>
    /\ UNCHANGED addrOthers

(* The caller passes the translated address on to another call, with a new *)
(* target coin.                                                             *)
PassOn ==
    /\ addrCall = "translateAddress"
    /\ addrRet.kind = "return"
    /\ address' = addrRet.value
    /\ coin' \in Coins
    /\ addrCall' = "none"
    /\ addrRet' = NoCall
    /\ UNCHANGED <<source, hops>>
    /\ UNCHANGED addrOthers

NextAddr == GetAddressCoinCall \/ TranslateAddressCall \/ PassOn

-----------------------------------------------------------------------------
(* JavaScript values of the message verifier: a text is a sequence of       *)
(* one-character strings, a Buffer a sequence of bytes, an array a sequence *)
(* of texts.                                                                *)
Str(chars) == [t |-> "string", chars |-> chars, bytes |-> <<>>, items |-> <<>>]
Buf(bytes) == [t |-> "buffer", chars |-> <<>>, bytes |-> bytes, items |-> <<>>]
Arr(items) == [t |-> "array", chars |-> <<>>, bytes |-> <<>>, items |-> items]
Undef == [t |-> "undefined", chars |-> <<>>, bytes |-> <<>>, items |-> <<>>]
False == [t |-> "false", chars |-> <<>>, bytes |-> <<>>, items |-> <<>>]

(* JavaScript truthiness: the empty text, undefined and false are falsy,    *)
(* every object (array, Buffer, also an empty one) is truthy.               *)
Truthy(x) ==
    CASE x.t = "string" -> x.chars # <<>>
      [] x.t \in {"buffer", "array"} -> TRUE
      [] OTHER -> FALSE

HexDigits == <<"0", "1", "2", "3", "4", "5", "6", "7", "8", "9",
               "a", "b", "c", "d", "e", "f">>
IsHex(c) == \E i \in DOMAIN HexDigits : HexDigits[i] = c
HexVal(c) == (CHOOSE i \in DOMAIN HexDigits : HexDigits[i] = c) - 1
IsDigit(c) == IsHex(c) /\ HexVal(c) < 10

(* The byte of a character in UTF-8 (the characters used are ASCII).        *)
CharCode(c) ==
    IF IsDigit(c) THEN 48 + HexVal(c)
    ELSE IF IsHex(c) THEN 87 + HexVal(c)
    ELSE CASE c = "z" -> 122 [] c = "!" -> 33 [] c = "-" -> 45 [] c = "|" -> 124
           [] OTHER -> 63

RECURSIVE Decimal(_, _)
Decimal(chars, acc) ==
    IF chars = <<>> THEN acc
    ELSE Decimal(Tail(chars), acc * 10 + HexVal(Head(chars)))

(* An array element read as a byte: Number(text) & 255, where the empty    *)
(* text is 0, a text of decimal digits its value, and any other text NaN,  *)
(* which is 0 as a byte.                                                    *)
ToUint8(chars) ==
    IF \A i \in DOMAIN chars : IsDigit(chars[i])
    THEN Decimal(chars, 0) % 256
    ELSE 0

(* Buffer.from(value): a text gives its UTF-8 bytes, an array one byte per  *)
(* element, undefined throws.                                               *)
BufferFrom(x) ==
    CASE x.t = "string" -> Return(Buf([i \in DOMAIN x.chars |-> CharCode(x.chars[i])]))
      [] x.t = "array" -> Return(Buf([i \in DOMAIN x.items |-> ToUint8(x.items[i])]))
      [] x.t = "buffer" -> Return(x)
      [] OTHER -> Throw("TypeError")

RECURSIVE HexDecode(_)
HexDecode(chars) ==
    IF Len(chars) < 2 \/ ~IsHex(chars[1]) \/ ~IsHex(chars[2]) THEN <<>>
    ELSE <<16 * HexVal(chars[1]) + HexVal(chars[2])>> \o HexDecode(SubSeq(chars, 3, Len(chars)))

(* Buffer.from(value, 'hex'): decodes pairs of hex digits up to the first   *)
(* pair that is none (it does not throw on a malformed text); undefined     *)
(* throws.                                                                  *)
BufferFromHex(x) ==
    CASE x.t = "string" -> Return(Buf(HexDecode(x.chars)))
      [] x.t = "buffer" -> Return(x)
      [] OTHER -> Throw("TypeError")

RECURSIVE Reverse(_)
Reverse(seq) == IF seq = <<>> THEN <<>> ELSE Reverse(Tail(seq)) \o <<Head(seq)>>

RECURSIVE Mix(_, _, _)
Mix(bytes, h, mult) ==
    IF bytes = <<>> THEN h
    ELSE Mix(Tail(bytes), (h * mult + Head(bytes) + 1) % 256, mult)

(* crypto.Hash.sha256sha256: a two-byte stand-in digest, applied twice.     *)
sha256(bytes) == <<Mix(bytes, 7, 31), Mix(bytes, 11, 17)>>
sha256sha256(bytes) == sha256(sha256(bytes))

(* A hashMessage that joins the segments of an array before encoding.       *)
hashMessage_joining(text, nr) ==
    IF ~Truthy(text) THEN Throw("IllegalArgument")
    ELSE LET RECURSIVE J(_)
             J(items) == IF items = <<>> THEN <<>> ELSE Head(items) \o J(Tail(items))
             buf == BufferFrom(IF text.t = "array" THEN Str(J(text.items)) ELSE text)
             ret == sha256sha256(buf.value.bytes)
         IN  Return(IF ~nr THEN Reverse(ret) ELSE ret)

(* Utils.hashMessage(text, noReverse).                                      *)
hashMessage(text, nr) ==
    IF ~Truthy(text) THEN Throw("IllegalArgument")
    ELSE LET buf == BufferFrom(text)
         IN  IF buf.kind = "throw" THEN buf
             ELSE LET ret == sha256sha256(buf.value.bytes)
                  IN  Return(IF ~nr THEN Reverse(ret) ELSE ret)

(* secp256k1.signatureImport: parses a DER signature (here with one-byte r  *)
(* and s) into the fixed-size form, or throws.                              *)
signatureImport(buf) ==
    LET b == buf.bytes
    IN  IF /\ Len(b) = 8
           /\ b[1] = 48 /\ b[2] = Len(b) - 2
           /\ b[3] = 2 /\ b[4] = 1
           /\ b[6] = 2 /\ b[7] = 1
        THEN Return(Buf(<<b[5], b[8]>>))
        ELSE Throw("Error")

DigestNum(hash) == hash[1] * 256 + hash[2]

(* secp256k1.ecdsaVerify(sig, msg, pubkey): throws on a public key that is  *)
(* no key, otherwise tells whether sig signs msg under the key.  The        *)
(* stand-in scheme: s = (r + key * msg) mod 251.                            *)
ecdsaVerify(sig, hash, pubkey) ==
    IF ~(Len(pubkey.bytes) = 2 /\ pubkey.bytes[1] \in {2, 3}) \/ Len(sig.bytes) # 2 \/ Len(hash) # 2
    THEN Throw("Error")
    ELSE Return(sig.bytes[2] = (sig.bytes[1] + pubkey.bytes[2] * DigestNum(hash)) % 251)

(* Utils._tryImportPublicKey.                                               *)
_tryImportPublicKey(pk) ==
    IF pk.t = "buffer" THEN pk
    ELSE LET b == BufferFromHex(pk)
         IN  IF b.kind = "throw" THEN False ELSE b.value

(* Utils._tryImportSignature.                                               *)
_tryImportSignature(sg) ==
    LET b == IF sg.t = "buffer" THEN Return(sg) ELSE BufferFromHex(sg)
    IN  IF b.kind = "throw" THEN False
        ELSE LET imported == signatureImport(b.value)
             IN  IF imported.kind = "throw" THEN False ELSE imported.value

(* Utils._tryVerifyMessage.                                                 *)
_tryVerifyMessage(hash, sig, publicKeyBuffer) ==
    LET r == ecdsaVerify(sig, hash, publicKeyBuffer)
    IN  IF r.kind = "throw" THEN FALSE ELSE r.value

(* Array.prototype.join(''): the segments one after another.                *)
RECURSIVE Join(_)
Join(items) == IF items = <<>> THEN <<>> ELSE Head(items) \o Join(Tail(items))

(* A verifyMessage that hashes with the default, reversed digest.           *)
verifyMessage_reversed(msg, sg, pk) ==
    IF ~Truthy(msg) THEN Throw("IllegalArgument")
    ELSE LET flattenedMessage == IF msg.t = "array" THEN Str(Join(msg.items)) ELSE msg
             hash == hashMessage(flattenedMessage, FALSE)
         IN  IF hash.kind = "throw" THEN hash
             ELSE LET sig == _tryImportSignature(sg)
                      publicKeyBuffer == _tryImportPublicKey(pk)
                  IN  IF ~Truthy(sig) \/ ~Truthy(publicKeyBuffer) THEN Return(FALSE)
                      ELSE Return(_tryVerifyMessage(hash.value, sig, publicKeyBuffer))

(* A verifyMessage without the try/catch around the verification.           *)
verifyMessage_uncaught(msg, sg, pk) ==
    IF ~Truthy(msg) THEN Throw("IllegalArgument")
    ELSE LET flattenedMessage == IF msg.t = "array" THEN Str(Join(msg.items)) ELSE msg
             hash == hashMessage(flattenedMessage, TRUE)
         IN  IF hash.kind = "throw" THEN hash
             ELSE LET sig == _tryImportSignature(sg)
                      publicKeyBuffer == _tryImportPublicKey(pk)
                  IN  IF ~Truthy(sig) \/ ~Truthy(publicKeyBuffer) THEN Return(FALSE)
                      ELSE ecdsaVerify(sig, hash.value, publicKeyBuffer)

(* Utils.verifyMessage(message, signature, publicKey).                      *)
verifyMessage(msg, sg, pk) ==
    IF ~Truthy(msg) THEN Throw("IllegalArgument")
    ELSE LET flattenedMessage == IF msg.t = "array" THEN Str(Join(msg.items)) ELSE msg
             hash == hashMessage(flattenedMessage, TRUE)
         IN  IF hash.kind = "throw" THEN hash
             ELSE LET sig == _tryImportSignature(sg)
                  IN  IF ~Truthy(sig) THEN Return(FALSE)
                      ELSE LET publicKeyBuffer == _tryImportPublicKey(pk)
                           IN  IF ~Truthy(publicKeyBuffer) THEN Return(FALSE)
                               ELSE Return(_tryVerifyMessage(hash.value, sig, publicKeyBuffer))

-----------------------------------------------------------------------------
(* The inputs of the message verifier.                                      *)
MsgAlphabet == {"a", "1"}
Texts(n) == UNION { [1..k -> MsgAlphabet] : k \in 0..n }
MessageInputs ==
    { Str(t) : t \in Texts(MaxMsgLen) }
    \cup { Arr(a) : a \in UNION { [1..k -> Texts(MaxSegLen)] : k \in 0..MaxSegs } }

Keys == 1..NumKeys

ToHex(bytes) ==
    [i \in 1..(2 * Len(bytes)) |->
        IF i % 2 = 1 THEN HexDigits[(bytes[(i + 1) \div 2] \div 16) + 1]
        ELSE HexDigits[(bytes[i \div 2] % 16) + 1]]

(* What a signer holding key k produces over a digest: DER of (r, s).       *)
DER(r, s) == <<48, 6, 2, 1, r, 2, 1, s>>
Sign(k, digest) == DER(5, (5 + k * DigestNum(digest)) % 251)
PubKey(k) == <<2, k>>

(* The digest a signer of the message signs: of the text, or of the         *)
(* segments one after another.                                              *)
SignedDigest(msg) ==
    sha256sha256(BufferFrom(Str(IF msg.t = "array" THEN Join(msg.items) ELSE msg.chars)).value.bytes)

(* Signatures offered with a message: well-formed ones, as hex text and as  *)
(* raw bytes, over the digest and over the reversed digest; one with s      *)
(* changed; and malformed ones.                                             *)
SignatureInputs(msg) ==
    LET d == SignedDigest(msg)
    IN  { Str(ToHex(Sign(k, d))) : k \in Keys }
        \cup { Buf(Sign(k, d)) : k \in Keys }
        \cup { Str(ToHex(Sign(1, Reverse(d)))),
               Str(ToHex(DER(5, (6 + DigestNum(d)) % 251))),
               Str(<<"n", "o", "t", "-", "h", "e", "x", "!", "!">>),
               Str(SubSeq(ToHex(Sign(1, d)), 1, 15)),
               Str(<<>>),
               Buf(<<5, 6>>),
               Undef }

PublicKeyInputs ==
    { Str(ToHex(PubKey(k))) : k \in Keys }
    \cup { Buf(PubKey(k)) : k \in Keys }
    \cup { Str(<<"z", "z">>), Str(<<>>), Buf(<<9, 1>>), Undef }

MsgIdle ==
    /\ message = Str(<<>>)
    /\ signature = Undef
    /\ publicKey = Undef
    /\ noReverse = FALSE
    /\ msgCall = "none"
    /\ msgRet = NoCall

MsgStart ==
    /\ message \in MessageInputs
    /\ signature \in SignatureInputs(message)
    /\ publicKey \in PublicKeyInputs
    /\ noReverse = FALSE
    /\ msgCall = "none"
    /\ msgRet = NoCall

(* A caller hashes the message, with or without the noReverse argument.     *)
HashMessageCall ==
    /\ msgCall = "none"
    /\ \E nr \in BOOLEAN :
          /\ noReverse' = nr
          /\ msgRet' = hashMessage(message, nr)
    /\ msgCall' = "hashMessage"
    /\ UNCHANGED <<message, signature, publicKey>>
    /\ UNCHANGED msgOthers

(* A caller verifies the signature over the message.                        *)
VerifyMessageCall ==
    /\ msgCall = "none"
    /\ msgCall' = "verifyMessage"
    /\ msgRet' = verifyMessage(message, signature, publicKey)
    /\ UNCHANGED <<message, signature, publicKey, noReverse>>
    /\ UNCHANGED msgOthers

NextMsg == HashMessageCall \/ VerifyMessageCall

-----------------------------------------------------------------------------
(* Network names: texts, compared and looked up character by character.     *)
s_testnet == Str(<<"t", "e", "s", "t", "n", "e", "t">>)
s_testnet3 == Str(<<"t", "e", "s", "t", "n", "e", "t", "3">>)
s_mainnet == Str(<<"m", "a", "i", "n", "n", "e", "t">>)
s_livenet == Str(<<"l", "i", "v", "e", "n", "e", "t">>)
s_regtest == Str(<<"r", "e", "g", "t", "e", "s", "t">>)
s_sepolia == Str(<<"s", "e", "p", "o", "l", "i", "a">>)
s_Testnet == Str(<<"T", "e", "s", "t", "n", "e", "t">>)
s_TESTNET == Str(<<"T", "E", "S", "T", "N", "E", "T">>)
s_Regtest == Str(<<"R", "e", "g", "t", "e", "s", "t">>)
s_MAINNET == Str(<<"M", "A", "I", "N", "N", "E", "T">>)
s_Livenet == Str(<<"L", "i", "v", "e", "n", "e", "t">>)
Null == [t |-> "null", chars |-> <<>>, bytes |-> <<>>, items |-> <<>>]

(* String.prototype.toLowerCase.                                            *)
LowerChar(c) ==
    CASE c = "T" -> "t" [] c = "E" -> "e" [] c = "S" -> "s" [] c = "N" -> "n"
      [] c = "M" -> "m" [] c = "A" -> "a" [] c = "I" -> "i" [] c = "R" -> "r"
      [] c = "G" -> "g" [] c = "L" -> "l"
      [] OTHER -> c
toLowerCase(x) == Str([i \in DOMAIN x.chars |-> LowerChar(x.chars[i])])

(* Constants.NETWORK_ALIASES: per chain, generic class -> specific name; a *)
(* chain without a table has the empty set of entries and HasAliases false. *)
HasAliases(ch) == ch \in {"btc", "eth"}
NETWORK_ALIASES(ch) ==
    CASE ch = "btc" -> { [key |-> s_mainnet, name |-> s_livenet],
                         [key |-> s_testnet, name |-> s_testnet3] }
      [] ch = "eth" -> { [key |-> s_testnet, name |-> s_sepolia] }
      [] OTHER -> {}

(* A getNetworkName that lowercases its argument before the lookup.         *)
getNetworkName_lowercasing(ch, network) ==
    LET key == IF network.t = "string" THEN toLowerCase(network) ELSE network
    IN  IF HasAliases(ch) /\ \E e \in NETWORK_ALIASES(ch) : e.key = key
        THEN (CHOOSE e \in NETWORK_ALIASES(ch) : e.key = key).name
        ELSE network

(* Utils.getNetworkName(chain, network).                                    *)
getNetworkName(ch, network) ==
    IF HasAliases(ch) /\ \E e \in NETWORK_ALIASES(ch) : e.key = network
    THEN (CHOOSE e \in NETWORK_ALIASES(ch) : e.key = network).name
    ELSE network

(* Utils.getNetworkType(network).                                           *)
getNetworkType(network) ==
    IF network \in {s_mainnet, s_livenet} THEN "mainnet"
    ELSE IF network = s_regtest THEN "regtest"
    ELSE "testnet"

(* A compareNetworks that allows the crossover whatever the configuration.  *)
compareNetworks_alwaysCrossover(n1, n2, ch) ==
    LET r1 == IF Truthy(n1) THEN getNetworkName(ch, toLowerCase(n1)) ELSE Null
        r2 == IF Truthy(n2) THEN getNetworkName(ch, toLowerCase(n2)) ELSE Null
    IN  IF r1 = r2 THEN TRUE
        ELSE getNetworkType(r1) \in {"testnet", "regtest"}
             /\ getNetworkType(r2) \in {"testnet", "regtest"}

(* Utils.compareNetworks(network1, network2, chain).                        *)
compareNetworks(n1, n2, ch) ==
    LET r1 == IF Truthy(n1) THEN getNetworkName(ch, toLowerCase(n1)) ELSE Null
        r2 == IF Truthy(n2) THEN getNetworkName(ch, toLowerCase(n2)) ELSE Null
    IN  IF r1 = r2 THEN TRUE
        ELSE IF /\ allowRegtest
                /\ getNetworkType(r1) \in {"testnet", "regtest"}
                /\ getNetworkType(r2) \in {"testnet", "regtest"}
        THEN TRUE
        ELSE FALSE

NetworkInputs ==
    { s_testnet, s_testnet3, s_mainnet, s_livenet, s_regtest, s_sepolia,
      s_Testnet, s_TESTNET, s_Regtest, s_MAINNET, s_Livenet,
      Str(<<>>), Undef }

Chains == {"btc", "eth", "doge"}

NetIdle ==
    /\ network1 = Undef
    /\ network2 = Undef
    /\ chain = "btc"
    /\ allowRegtest = FALSE
    /\ netCall = "none"
    /\ netRet = NoCall

NetStart ==
    /\ network1 \in NetworkInputs
    /\ network2 \in NetworkInputs
    /\ chain \in Chains
    /\ allowRegtest \in BOOLEAN
    /\ netCall = "none"
    /\ netRet = NoCall

CompareNetworksCall ==
    /\ netCall = "none"
    /\ netCall' = "compareNetworks"
    /\ netRet' = Return(compareNetworks(network1, network2, chain))
    /\ UNCHANGED <<network1, network2, chain, allowRegtest>>
    /\ UNCHANGED netOthers

GetNetworkNameCall ==
    /\ netCall = "none"
    /\ netCall' = "getNetworkName"
    /\ netRet' = Return(getNetworkName(chain, network1))
    /\ UNCHANGED <<network1, network2, chain, allowRegtest>>
    /\ UNCHANGED netOthers

GetNetworkTypeCall ==
    /\ netCall = "none"
    /\ netCall' = "getNetworkType"
    /\ netRet' = Return(getNetworkType(network1))
    /\ UNCHANGED <<network1, network2, chain, allowRegtest>>
    /\ UNCHANGED netOthers

NextNet == CompareNetworksCall \/ GetNetworkNameCall \/ GetNetworkTypeCall

-----------------------------------------------------------------------------
(* The update-wallet route.                                                 *)

(* A submitted address, by what the handler reads of it: the length of its *)
(* text (0: the line has no address) and whether Validation.validateAddress *)
(* accepts it for the chain and network.                                    *)
maxLength == 255
AddressKinds ==
    { [length |-> 0, valid |-> FALSE],
      [length |-> 34, valid |-> TRUE],
      [length |-> 34, valid |-> FALSE],
      [length |-> maxLength - 1, valid |-> TRUE],
      [length |-> maxLength, valid |-> TRUE] }
Bodies == UNION { [1..k -> [address : AddressKinds]] : k \in 0..MaxLines }

(* isTooLong(field, maxLength = 255).                                       *)
isTooLong(field) == field.length > 0 /\ field.length >= maxLength

(* Validation.validateAddress(chain, network, address).                     *)
validateAddress(addr) == addr.valid

(* The message a reprocess request is signed over:                          *)
(* ['reprocess', '/addAddresses' + pubKey, JSON.stringify(req.body)].join('|') *)
ReprocessMessage(pubKey, body) ==
    <<"reprocess", "|", "/addAddresses", pubKey, "|", body>>

(* config.services.socket.bwsKeys[0].                                       *)
bwsKey == "bwsKey"

(* An x-reprocess header: absent, empty, malformed, or a signature made     *)
(* with some key over some message.                                         *)
NoHeader == [form |-> "absent", key |-> "", msg |-> <<>>]
EmptyHeader == [form |-> "empty", key |-> "", msg |-> <<>>]
MalformedHeader == [form |-> "malformed", key |-> "", msg |-> <<>>]
SignatureHeader(key, msg) == [form |-> "signature", key |-> key, msg |-> msg]

PubKeys == {"pubKeyA", "pubKeyB"}

HeaderInputs(pubKey, body) ==
    { NoHeader, EmptyHeader, MalformedHeader,
      SignatureHeader(bwsKey, ReprocessMessage(pubKey, body)),
      SignatureHeader("otherKey", ReprocessMessage(pubKey, body)),
      SignatureHeader(bwsKey, ReprocessMessage(CHOOSE k \in PubKeys : k # pubKey, body)),
      SignatureHeader(bwsKey, ReprocessMessage(pubKey, body \o <<[address |-> [length |-> 34, valid |-> TRUE]]>>)),
      SignatureHeader(bwsKey, <<"reprocess", "|", "/addAddresses", "|", pubKey, body>>) }

(* Auth.verifyRequestSignature({ message, pubKey, signature }): whether the *)
(* signature signs the message under the key; throws on a signature that    *)
(* cannot be decoded.                                                       *)
verifyRequestSignature(msg, pubKey, sig) ==
    IF sig.form # "signature" THEN Throw("Error")
    ELSE Return(sig.key = pubKey /\ sig.msg = msg)

(* The response object.  statusCode is the property res.status sets;        *)
(* sentStatus is the status line that went out with the headers, on the     *)
(* first write; chunks is the body written so far.                          *)
NewResponse ==
    [statusCode |-> 200, headersSent |-> FALSE, sentStatus |-> 0,
     chunks |-> <<>>, ended |-> FALSE, writeAfterEnd |-> FALSE]

ResStatus(r, code) == [r EXCEPT !.statusCode = code]

ResWrite(r, chunk) ==
    IF r.ended THEN [r EXCEPT !.writeAfterEnd = TRUE]
    ELSE [r EXCEPT !.headersSent = TRUE,
                   !.sentStatus = IF r.headersSent THEN @ ELSE r.statusCode,
                   !.chunks = Append(@, chunk)]

ResEnd(r) ==
    IF r.ended THEN r
    ELSE [r EXCEPT !.headersSent = TRUE,
                   !.sentStatus = IF r.headersSent THEN @ ELSE r.statusCode,
                   !.ended = TRUE]

(* res.send(body): sets headers, so it throws once the headers are sent.    *)
ResSend(r, body) ==
    IF r.headersSent THEN Throw("ERR_HTTP_HEADERS_SENT")
    ELSE Return(ResEnd(ResWrite(r, body)))

(* A clearInterval that leaves the interval running.                        *)
clearInterval_leaking(k) == k

(* clearInterval(keepAlive): stops an active interval, nothing otherwise.   *)
clearInterval(k) == IF k = "active" THEN "cleared" ELSE k

(* req.body.filter(line => !!line.address).map(({ address }) => address).   *)
Addresses(body) ==
    LET addressLines == SelectSeq(body, LAMBDA line : line.address.length > 0)
    IN  [i \in DOMAIN addressLines |-> addressLines[i].address]

RouteIdle ==
    /\ req = [pubKey |-> "pubKeyA", reprocess |-> NoHeader, body |-> <<>>]
    /\ res = NewResponse
    /\ pc = "idle"
    /\ keepAlive = "undefined"
    /\ ticks = 0
    /\ verified = "notrun"
    /\ updateCalls = <<>>
    /\ fault = "none"

RouteStart ==
    /\ \E pubKey \in PubKeys, body \in Bodies :
          \E h \in HeaderInputs(pubKey, body) :
              req = [pubKey |-> pubKey, reprocess |-> h, body |-> body]
    /\ res = NewResponse
    /\ pc = "middleware"
    /\ keepAlive = "undefined"
    /\ ticks = 0
    /\ verified = "notrun"
    /\ updateCalls = <<>>
    /\ fault = "none"

(* Auth.authenticateMiddleware: passes the request on, or answers it.       *)
AuthenticateMiddleware ==
    /\ pc = "middleware"
    /\ \/ pc' = "handler" /\ res' = res
       \/ \E code \in {401, 404} :
             /\ pc' = "answered"
             /\ res' = ResSend(ResStatus(res, code), "Authentication failed").value
    /\ UNCHANGED <<req, keepAlive, ticks, verified, updateCalls, fault>>
    /\ UNCHANGED routeOthers

(* An x-reprocess block that sets reprocess before it looks at the result   *)
(* of the verification.                                                     *)
ReprocessCheck_unverified(r) ==
    IF r.reprocess.form \in {"absent", "empty"}
    THEN [then |-> "continue", reprocess |-> FALSE, verified |-> "notrun"]
    ELSE LET reprocessOk == verifyRequestSignature(
                                ReprocessMessage(r.pubKey, r.body), bwsKey, r.reprocess)
         IN  IF reprocessOk.kind = "throw"
             THEN [then |-> "throw", reprocess |-> FALSE, verified |-> "threw"]
             ELSE [then |-> "continue", reprocess |-> TRUE,
                   verified |-> IF reprocessOk.value THEN "accepted" ELSE "rejected"]

(* The x-reprocess block of the handler: what it decides, and how          *)
(* Auth.verifyRequestSignature ended.                                       *)
ReprocessCheck(r) ==
    IF r.reprocess.form \in {"absent", "empty"}
    THEN [then |-> "continue", reprocess |-> FALSE, verified |-> "notrun"]
    ELSE LET reprocessOk == verifyRequestSignature(
                                ReprocessMessage(r.pubKey, r.body), bwsKey, r.reprocess)
         IN  IF reprocessOk.kind = "throw"
             THEN [then |-> "throw", reprocess |-> FALSE, verified |-> "threw"]
             ELSE IF ~reprocessOk.value
             THEN [then |-> "401", reprocess |-> FALSE, verified |-> "rejected"]
             ELSE [then |-> "continue", reprocess |-> TRUE, verified |-> "accepted"]

(* The handler up to its await: one turn of the event loop.                 *)
UpdateWalletHandler ==
    /\ pc = "handler"
    /\ LET addresses == Addresses(req.body)
           check == ReprocessCheck(req)
       IN  IF \E i \in DOMAIN addresses :
                  isTooLong(addresses[i]) \/ ~validateAddress(addresses[i])
           THEN /\ res' = ResSend(ResStatus(res, 413), "Invalid address").value
                /\ pc' = "done"
                /\ UNCHANGED <<keepAlive, verified, updateCalls>>
           ELSE IF check.then = "throw"
           THEN \* caught: clearInterval(undefined), then res.status(500).send
                /\ res' = ResSend(ResStatus(res, 500), "err.message").value
                /\ verified' = check.verified
                /\ pc' = "done"
                /\ keepAlive' = clearInterval(keepAlive)
                /\ UNCHANGED updateCalls
           ELSE IF check.then = "401"
           THEN /\ res' = ResSend(ResStatus(res, 401), "Authentication failed").value
                /\ verified' = check.verified
                /\ pc' = "done"
                /\ UNCHANGED <<keepAlive, updateCalls>>
           ELSE /\ res' = ResStatus(res, 200)
                /\ keepAlive' = "active"
                /\ verified' = check.verified
                /\ updateCalls' = Append(updateCalls,
                                         [addresses |-> addresses,
                                          reprocess |-> check.reprocess])
                /\ pc' = "awaiting"
    /\ UNCHANGED <<req, ticks, fault>>
    /\ UNCHANGED routeOthers

(* The interval fires: res.write('\n').                                     *)
KeepAliveTick ==
    /\ keepAlive = "active"
    /\ ticks < MaxTicks
    /\ res' = ResWrite(res, "\n")
    /\ ticks' = ticks + 1
    /\ UNCHANGED <<req, pc, keepAlive, verified, updateCalls, fault>>
    /\ UNCHANGED routeOthers

(* updateWallet resolves: clearInterval(keepAlive); return res.end().       *)
UpdateWalletResolves ==
    /\ pc = "awaiting"
    /\ keepAlive' = clearInterval(keepAlive)
    /\ res' = ResEnd(res)
    /\ pc' = "done"
    /\ UNCHANGED <<req, ticks, verified, updateCalls, fault>>
    /\ UNCHANGED routeOthers

(* updateWallet rejects: the catch block clears the interval and sends the  *)
(* error with status 500; res.send throws when a tick already sent the      *)
(* headers, and nothing catches that.                                       *)
UpdateWalletRejects ==
    /\ pc = "awaiting"
    /\ keepAlive' = clearInterval(keepAlive)
    /\ LET sent == ResSend(ResStatus(res, 500), "err.message")
       IN  IF sent.kind = "throw"
           THEN res' = ResStatus(res, 500) /\ fault' = sent.value
           ELSE res' = sent.value /\ fault' = fault
    /\ pc' = "done"
    /\ UNCHANGED <<req, ticks, verified, updateCalls>>
    /\ UNCHANGED routeOthers

NextRoute ==
    \/ AuthenticateMiddleware
    \/ UpdateWalletHandler
    \/ KeepAliveTick
    \/ UpdateWalletResolves
    \/ UpdateWalletRejects

-----------------------------------------------------------------------------
(* The specifications: one per component, the others idle.                  *)
InitAddr == AddrStart /\ MsgIdle /\ NetIdle /\ RouteIdle
SpecAddr == InitAddr /\ [][NextAddr]_vars

InitMsg == MsgStart /\ AddrIdle /\ NetIdle /\ RouteIdle
SpecMsg == InitMsg /\ [][NextMsg]_vars

InitNet == NetStart /\ AddrIdle /\ MsgIdle /\ RouteIdle
SpecNet == InitNet /\ [][NextNet]_vars

InitRoute == RouteStart /\ AddrIdle /\ MsgIdle /\ NetIdle
SpecRoute == InitRoute /\ [][NextRoute]_vars

Init == InitAddr \/ InitMsg \/ InitNet \/ InitRoute
Next == NextAddr \/ NextMsg \/ NextNet \/ NextRoute
Spec == Init /\ [][Next]_vars

-----------------------------------------------------------------------------
(* Properties of the address identity resolver.                             *)

Order == <<"btc", "bch", "doge", "ltc">>
Idx(c) == CHOOSE i \in DOMAIN Order : Order[i] = c
Accepts(c, s) == Address(c, s).kind = "return"
Accepting(s) == { c \in Coins : Accepts(c, s) }
FirstAccepting(s) ==
    IF Accepting(s) = {} THEN undefined
    ELSE CHOOSE c \in Accepting(s) : \A d \in Accepting(s) : Idx(c) <= Idx(d)
(* The hash bytes a string decodes to, under the fork it classifies as.     *)
HashOf(s) == Address(FirstAccepting(s), s).value.hash
Translated == addrCall = "translateAddress" /\ addrRet.kind = "return"

(* C1: getAddressCoin returns (never throws) the first fork, in the order   *)
(* btc, bch, doge, ltc, whose grammar accepts the string, and undefined     *)
(* when none does.                                                          *)
C1_ClassifyFirstInOrder ==
    addrCall = "getAddressCoin" => addrRet = Return(FirstAccepting(address))

(* C1 witness: a string several grammars accept was classified as btc.      *)
C1_Witness ==
    /\ addrCall = "getAddressCoin"
    /\ Cardinality(Accepting(address)) >= 2
    /\ addrRet = Return("btc")

(* C2 as stated: the translated address classifies as the target coin.      *)
C2_ClassifyTranslateIsTarget ==
    Translated => getAddressCoin(addrRet.value) = Return(coin)

(* C2 amended: the target's grammar accepts the translated address, and     *)
(* getAddressCoin returns the first fork in order accepting it: the target  *)
(* or a fork before it, the target exactly when no earlier fork accepts it. *)
C2_ClassifyTranslateFirstAccepting ==
    Translated =>
        LET v == addrRet.value
            k == getAddressCoin(v)
        IN  /\ Accepts(coin, v)
            /\ k.kind = "return" /\ k.value \in Coins
            /\ Idx(k.value) <= Idx(coin)
            /\ ((k.value = coin) <=> (\A c \in Coins : Idx(c) < Idx(coin) => ~Accepts(c, v)))
            /\ (coin = "btc" => k.value = "btc")

(* C2 witness: a translation to bch gave the legacy format, which btc's     *)
(* grammar accepts as well, so it classifies as btc.                        *)
C2_Witness ==
    /\ Translated
    /\ coin = "bch"
    /\ addrRet.value.enc = "base58"
    /\ getAddressCoin(addrRet.value) = Return("btc")

C4_InvalidSourceAddress ==
    (addrCall = "translateAddress" /\ getAddressCoin(address) = Return(undefined))
        => addrRet = Throw("InvalidSourceAddress")

-----------------------------------------------------------------------------
(* Properties of the message signature verifier.                            *)

(* The text of a message: itself, or its segments one after another.        *)
FlatText(msg) == IF msg.t = "array" THEN Join(msg.items) ELSE msg.chars
(* The bytes a signature or key argument stands for.                        *)
DecodedBytes(x) == IF x.t = "buffer" THEN x.bytes ELSE HexDecode(x.chars)
SigDecodes(x) ==
    x.t \in {"buffer", "string"} /\ signatureImport(Buf(DecodedBytes(x))).kind = "return"
KeyDecodes(x) ==
    /\ x.t \in {"buffer", "string"}
    /\ Len(DecodedBytes(x)) = 2
    /\ DecodedBytes(x)[1] \in {2, 3}
(* Whether the signature signs the non-reversed digest of the text under    *)
(* the key.                                                                 *)
SignsDigest(msg, sg, pk) ==
    LET d == sha256sha256(BufferFrom(Str(FlatText(msg))).value.bytes)
        b == DecodedBytes(sg)
    IN  b[8] = (b[5] + DecodedBytes(pk)[2] * DigestNum(d)) % 251
OrderedDigest(d) == IF noReverse THEN d ELSE Reverse(d)

(* C5 as stated: verifyMessage returns a boolean for every message, the     *)
(* empty one included.                                                      *)
C5_VerifyMessageTotal ==
    msgCall = "verifyMessage" => (msgRet.kind = "return" /\ msgRet.value \in BOOLEAN)

(* C5 amended: verifyMessage returns a boolean, and false for a signature   *)
(* or key that does not decode, whenever the text of the message is not     *)
(* empty; with an empty text its argument check throws.                     *)
C5_VerifyMessageTotalOnNonEmpty ==
    msgCall = "verifyMessage" =>
        IF FlatText(message) = <<>>
        THEN msgRet = Throw("IllegalArgument")
        ELSE /\ msgRet.kind = "return"
             /\ msgRet.value \in BOOLEAN
             /\ ((~SigDecodes(signature) \/ ~KeyDecodes(publicKey)) => msgRet.value = FALSE)

(* C5 witness: a well-formed signature checked against bytes that are no    *)
(* key, where the verification primitive raises, gave false.                *)
C5_Witness ==
    /\ msgCall = "verifyMessage"
    /\ FlatText(message) # <<>>
    /\ SigDecodes(signature)
    /\ publicKey = Buf(<<9, 1>>)
    /\ msgRet = Return(FALSE)

(* C6: whenever verifyMessage returns, it returns true exactly when the     *)
(* signature and key decode and the signature signs the non-reversed        *)
(* double hash of the message text, the segments of a sequence joined with  *)
(* no separator; a sequence verifies like its joined text.                  *)
C6_VerifyUsesNonReversedDigest ==
    (msgCall = "verifyMessage" /\ msgRet.kind = "return") =>
        /\ msgRet.value =
              (/\ SigDecodes(signature)
               /\ KeyDecodes(publicKey)
               /\ SignsDigest(message, signature, publicKey))
        /\ msgRet = verifyMessage(Str(FlatText(message)), signature, publicKey)

(* C6 witness: a message of two segments verified true.                     *)
C6_Witness ==
    /\ msgCall = "verifyMessage"
    /\ message.t = "array"
    /\ Len(message.items) = 2
    /\ message.items[1] # <<>> /\ message.items[2] # <<>>
    /\ msgRet = Return(TRUE)

(* C7 as stated: hashMessage of a sequence is hashMessage of its segments   *)
(* joined with no separator (said here of the sequences whose joined text   *)
(* is not empty, which hashMessage accepts).                                *)
C7_HashMessageJoinsSegments ==
    (msgCall = "hashMessage" /\ message.t = "array" /\ Join(message.items) # <<>>)
        => msgRet = hashMessage(Str(Join(message.items)), noReverse)

(* C7 amended: hashMessage of a text is the double hash of the text's       *)
(* bytes (an empty text throws); hashMessage of a sequence is the double    *)
(* hash of one byte per segment, the segment read as a number; the digest   *)
(* is reversed unless noReverse is set.                                     *)
C7_HashMessageBytes ==
    msgCall = "hashMessage" =>
        IF message.t = "array"
        THEN msgRet = Return(OrderedDigest(sha256sha256(
                        [i \in DOMAIN message.items |-> ToUint8(message.items[i])])))
        ELSE IF message.chars = <<>>
        THEN msgRet = Throw("IllegalArgument")
        ELSE msgRet = Return(OrderedDigest(sha256sha256(
                        [i \in DOMAIN message.chars |-> CharCode(message.chars[i])])))

(* C7 witness: a sequence of two segments hashed to another digest than its *)
(* joined text.                                                             *)
C7_Witness ==
    /\ msgCall = "hashMessage"
    /\ message.t = "array"
    /\ Len(message.items) = 2
    /\ message.items[1] # <<>> /\ message.items[2] # <<>>
    /\ msgRet.kind = "return"
    /\ hashMessage(Str(Join(message.items)), noReverse).kind = "return"
    /\ msgRet # hashMessage(Str(Join(message.items)), noReverse)

-----------------------------------------------------------------------------
(* Properties of the network names.                                         *)

(* A network argument lowercased and resolved to the chain's specific name  *)
(* (null for a missing one).                                                *)
Resolved(n) == IF Truthy(n) THEN getNetworkName(chain, toLowerCase(n)) ELSE Null
TestClass(n) == getNetworkType(Resolved(n)) \in {"testnet", "regtest"}

(* C8: compareNetworks is true exactly when the two resolved names are      *)
(* equal, or the crossover is allowed and both resolved names are of type   *)
(* testnet or regtest; so testnet against regtest follows the configuration *)
(* and a mainnet-type name never matches a testnet- or regtest-type one.    *)
C8_CompareNetworks ==
    netCall = "compareNetworks" =>
        /\ netRet = Return(\/ Resolved(network1) = Resolved(network2)
                           \/ (allowRegtest /\ TestClass(network1) /\ TestClass(network2)))
        /\ ((network1 = s_testnet /\ network2 = s_regtest) => netRet = Return(allowRegtest))
        /\ ((~TestClass(network1) /\ TestClass(network2)) => netRet = Return(FALSE))
        /\ ((TestClass(network1) /\ ~TestClass(network2)) => netRet = Return(FALSE))

(* C8 witness: testnet against regtest was found compatible with the        *)
(* crossover allowed.                                                       *)
C8_Witness ==
    /\ netCall = "compareNetworks"
    /\ network1 = s_testnet
    /\ network2 = s_regtest
    /\ allowRegtest
    /\ netRet = Return(TRUE)

(* The specific name the chain's table holds for a key, or the fallback.    *)
AliasOr(ch, key, fallback) ==
    IF \E e \in NETWORK_ALIASES(ch) : e.key = key
    THEN (CHOOSE e \in NETWORK_ALIASES(ch) : e.key = key).name
    ELSE fallback

(* C9 as stated: getNetworkName looks the lowercased network up, so every   *)
(* letter case of a generic class resolves alike.                           *)
C9_GetNetworkNameAnyCase ==
    (netCall = "getNetworkName" /\ network1.t = "string")
        => netRet = Return(AliasOr(chain, toLowerCase(network1), network1))

(* C9 amended: getNetworkName looks the network up as given, letter case    *)
(* included, and returns the argument unchanged when the chain has no table *)
(* or no entry under exactly that key.                                      *)
C9_GetNetworkNameAsGiven ==
    netCall = "getNetworkName"
        => netRet = Return(AliasOr(chain, network1, network1))

(* C9 witness: "Testnet" came back unchanged on a chain whose table has an  *)
(* entry for "testnet".                                                     *)
C9_Witness ==
    /\ netCall = "getNetworkName"
    /\ network1 = s_Testnet
    /\ chain = "btc"
    /\ getNetworkName(chain, s_testnet) = s_testnet3
    /\ netRet = Return(s_Testnet)

-----------------------------------------------------------------------------
(* Properties of the update-wallet route.                                   *)

(* The header is a signature by the configured key over                     *)
(* reprocess|/addAddresses<pubKey>|<JSON body> of this very request.        *)
SignedByBws ==
    /\ req.reprocess.form = "signature"
    /\ req.reprocess.key = "bwsKey"
    /\ req.reprocess.msg = <<"reprocess", "|", "/addAddresses", req.pubKey, "|", req.body>>
(* Some submitted address is too long or fails validateAddress.             *)
BadAddress ==
    \E i \in DOMAIN req.body :
        LET a == req.body[i].address
        IN  a.length > 0 /\ (a.length >= 255 \/ ~a.valid)

(* C10: updateWallet is called at most once; with reprocess = true only for *)
(* a request whose x-reprocess header verifyRequestSignature accepted, a    *)
(* signature by the configured key over the request's own message; a header *)
(* it rejected ends the request with 401 and no call; and no call is made,  *)
(* and 413 is sent, when a submitted address is too long or invalid.        *)
C10_ReprocessOnlyWhenVerified ==
    /\ Len(updateCalls) <= 1
    /\ \A i \in DOMAIN updateCalls :
          updateCalls[i].reprocess <=> (verified = "accepted" /\ SignedByBws)
    /\ verified = "accepted" => SignedByBws
    /\ verified = "rejected" =>
          /\ updateCalls = <<>>
          /\ pc = "done" /\ res.ended /\ res.sentStatus = 401
          /\ req.reprocess.form = "signature" /\ ~SignedByBws
    /\ BadAddress =>
          /\ updateCalls = <<>>
          /\ pc = "done" => (res.ended /\ res.sentStatus = 413)

(* C10 witness: a request with an accepted x-reprocess header went through  *)
(* updateWallet with reprocess = true and was answered 200.                 *)
C10_Witness ==
    /\ pc = "done"
    /\ Len(updateCalls) = 1
    /\ updateCalls[1].reprocess
    /\ Len(updateCalls[1].addresses) > 0
    /\ res.ended /\ res.sentStatus = 200

(* updateWallet was called and has settled: the handler ran to its end.     *)
UpdateSettled == pc = "done" /\ updateCalls # <<>>
(* ... by rejecting: the catch block set the status code to 500.            *)
UpdateRejected == UpdateSettled /\ res.statusCode = 500
(* ... by resolving: the status code is still the 200 set before the await. *)
UpdateResolved == UpdateSettled /\ res.statusCode = 200

(* C11: once updateWallet settles, by resolving or by rejecting, the        *)
(* keep-alive interval is cleared; no interval is running after the handler *)
(* finished; no newline is written to a response that was ended, and no     *)
(* step after the handler finished or the response ended adds to the body.  *)
C11_KeepAliveCleared ==
    /\ [](UpdateSettled => keepAlive = "cleared")
    /\ []((pc = "done" \/ res.ended) => keepAlive # "active")
    /\ [](~res.writeAfterEnd)
    /\ [][(pc = "done" \/ res.ended) => res'.chunks = res.chunks]_vars

(* C11 witness: keep-alive newlines were written while updateWallet was     *)
(* pending, then it resolved: the interval is cleared and the response      *)
(* ended with exactly those newlines.                                       *)
C11_Witness ==
    /\ UpdateResolved
    /\ ticks >= 1
    /\ keepAlive = "cleared"
    /\ res.ended
    /\ Len(res.chunks) = ticks
    /\ \A i \in DOMAIN res.chunks : res.chunks[i] = "\n"

(* C12 as stated: when updateWallet rejects, the client receives status 500 *)
(* with the error message, however many keep-alive ticks fired before; and  *)
(* a finished request was delivered status 200 only if updateWallet         *)
(* resolved.                                                                *)
C12_RejectionDelivers500 ==
    /\ UpdateRejected =>
          /\ res.ended
          /\ res.sentStatus = 500
          /\ \E i \in DOMAIN res.chunks : res.chunks[i] = "err.message"
    /\ (pc = "done" /\ res.sentStatus = 200) => UpdateResolved

====
